---- MODULE Spec2Model ----
(***************************************************************************)
(* A model of presence-rs: the tri-state container Presence<T> (Absent,    *)
(* Null, Some(v)), its in-place mutations, its pairwise combinators, its   *)
(* reductions (collect, sum, product) and its serde bridge.                *)
(*                                                                         *)
(* The module holds five state machines over disjoint groups of variables: *)
(*   SpecReduce  one run of from_iter / sum / product, one pulled element  *)
(*               per step;                                                 *)
(*   SpecSlot    a mutable slot under take, take_if, replace, insert, the  *)
(*               get_or_insert family, and writes through a handle;        *)
(*   SpecPure    the pure operations (conversions, extraction, map,        *)
(*               filter, and, or, xor, zip) applied to given operands;     *)
(*   SpecSerde   serialize and deserialize of a value, of an array of      *)
(*               values and of a record field with the omit/default rule;  *)
(*   SpecIter    a container and the iterators derived from it with        *)
(*               into_iter, iter and iter_mut.                             *)
(* Each specification keeps the other groups at their idle values.         *)
(***************************************************************************)
EXTENDS Integers, Sequences, FiniteSets

VARIABLES
    \* reduction
    kind, iter, pulled, has_null, values, rpc, result, checks,
    \* slot
    slot, ret, op, before, prevOp, prevRet, given, fcalls,
    \* pure combinators
    a, b, fsel, arg, pop, res, called,
    \* serde
    shape, doc, wire, back, stage,
    \* iterators
    cont, origin, flavour, item, calls, prior, priorFlavour, wrote

reduceVars == <<kind, iter, pulled, has_null, values, rpc, result, checks>>
slotVars == <<slot, ret, op, before, prevOp, prevRet, given, fcalls>>
pureVars == <<a, b, fsel, arg, pop, res, called>>
serdeVars == <<shape, doc, wire, back, stage>>
iterVars == <<cont, origin, flavour, item, calls, prior, priorFlavour, wrote>>
vars == <<reduceVars, slotVars, pureVars, serdeVars, iterVars>>

(***************************************************************************)
(* Bounds                                                                  *)
(***************************************************************************)
\* payloads are 1..MaxPayload
MaxPayload == 3
\* reduced sequences have at most MaxLen elements
MaxLen == 3
\* serialized arrays have at most MaxItems elements
MaxItems == 2
\* one iterator is advanced at most MaxCalls times
MaxCalls == 3

Payload == 1..MaxPayload

(***************************************************************************)
(* enum Presence<T> { Absent, Null, Some(T) }                              *)
(***************************************************************************)
Absent == [tag |-> "Absent"]
Null == [tag |-> "Null"]
Some(v) == [tag |-> "Some", val |-> v]

PresenceOf(S) == {Absent, Null} \cup {Some(v) : v \in S}
Values == PresenceOf(Payload)

is_absent(self) == self.tag = "Absent"
is_null(self) == self.tag = "Null"
is_present(self) == self.tag = "Some"

\* !matches!(self, Presence::Absent)
is_defined(self) == ~(self.tag = "Absent")

\* mutant: only Null counts as nullish
is_nullishMut(self) == self.tag = "Null"

\* !matches!(self, Presence::Some(_))
is_nullish(self) == ~(self.tag = "Some")

\* impl Default: Presence::Absent
Presence_default == Absent

\* all sequences over S of length at most n
SeqsUpTo(S, n) == UNION {[1..k -> S] : k \in 0..n}

None == [tag |-> "None"]

\* a plain value of the payload type T, as an argument or a return value
Val(v) == [tag |-> "Value", val |-> v]

\* <i32 as Default>::default()
T_default == 0

\* a call that did not return: panic!(text)
Panicked(text) == [tag |-> "Panicked", text |-> text]

(***************************************************************************)
(* Reductions: FromIterator, Product and Sum for Presence.  The three      *)
(* bodies are the same loop; kind selects the final aggregate.  Sum and    *)
(* Product are generic in the payload type; they are taken at T = i8, the  *)
(* narrowest integer, whose + and * overflow within small inputs.  On      *)
(* overflow the integer Sum and Product of the standard library panic in   *)
(* a build with overflow checks (the default of debug and test builds)     *)
(* and wrap in a build without them; checks is the build setting.          *)
(***************************************************************************)
Kinds == {"collect", "sum", "product"}

\* i8::BITS, i8::MIN, i8::MAX
I8_BITS == 8
I8_MIN == 0 - 2 ^ (I8_BITS - 1)
I8_MAX == 2 ^ (I8_BITS - 1) - 1

\* the payloads handed to a reduction: the small ones and i8::MAX
Summands == Payload \cup {I8_MAX}

\* two's complement wrap-around of an i8 result
Wrap(n) == ((n - I8_MIN) % (2 ^ I8_BITS)) + I8_MIN

\* fold(0, |a, b| a + b) and fold(1, |a, b| a * b), in the integers
RECURSIVE SumOf(_)
SumOf(s) == IF s = <<>> THEN 0 ELSE Head(s) + SumOf(Tail(s))

RECURSIVE ProductOf(_)
ProductOf(s) == IF s = <<>> THEN 1 ELSE Head(s) * ProductOf(Tail(s))

\* the fold leaves the range of i8 at some step
Overflows(k, vs) ==
    /\ k # "collect"
    /\ \E i \in 1..Len(vs) :
        LET n == IF k = "sum" THEN SumOf(SubSeq(vs, 1, i))
                 ELSE ProductOf(SubSeq(vs, 1, i))
        IN n < I8_MIN \/ n > I8_MAX

\* mutant: the fold of product starts from the identity of sum
AggregateMut(k, vs) ==
    CASE k = "collect" -> vs
      [] k = "sum" -> Wrap(SumOf(vs))
      [] k = "product" -> Wrap(0 * ProductOf(vs))

\* values.into_iter().collect() / .product() / .sum(), as it returns
Aggregate(k, vs) ==
    CASE k = "collect" -> vs
      [] k = "sum" -> Wrap(SumOf(vs))
      [] k = "product" -> Wrap(ProductOf(vs))

InitReduceVars ==
    /\ kind \in Kinds
    /\ iter \in SeqsUpTo(PresenceOf(Summands), MaxLen)
    /\ checks \in BOOLEAN
    /\ pulled = 0
    /\ has_null = FALSE
    /\ values = <<>>
    /\ rpc = "loop"
    /\ result = None

IdleReduceVars ==
    /\ kind = "collect"
    /\ iter = <<>>
    /\ pulled = 0
    /\ has_null = FALSE
    /\ values = <<>>
    /\ rpc = "idle"
    /\ result = None
    /\ checks = FALSE

\* the loop pulls the next item: for item in iter
HasNext == rpc = "loop" /\ pulled < Len(iter)
NextItem == iter[pulled + 1]

\* Presence::Absent => return Presence::Absent   (mutant: keeps scanning)
PullAbsentMut ==
    /\ HasNext
    /\ is_absent(NextItem)
    /\ pulled' = pulled + 1
    /\ result' = Absent
    /\ UNCHANGED <<kind, iter, has_null, values, rpc, checks>>

PullAbsent ==
    /\ HasNext
    /\ is_absent(NextItem)
    /\ pulled' = pulled + 1
    /\ result' = Absent
    /\ rpc' = "done"
    /\ UNCHANGED <<kind, iter, has_null, values, checks>>

\* Presence::Null => has_null = true   (mutant: returns Null at once)
PullNullMut ==
    /\ HasNext
    /\ is_null(NextItem)
    /\ pulled' = pulled + 1
    /\ has_null' = TRUE
    /\ result' = Null
    /\ rpc' = "done"
    /\ UNCHANGED <<kind, iter, values, checks>>

PullNull ==
    /\ HasNext
    /\ is_null(NextItem)
    /\ pulled' = pulled + 1
    /\ has_null' = TRUE
    /\ UNCHANGED <<kind, iter, values, rpc, result, checks>>

\* mutant: the value is put in front of those pulled before it
PullSomeMut ==
    /\ HasNext
    /\ is_present(NextItem)
    /\ pulled' = pulled + 1
    /\ values' = <<NextItem.val>> \o values
    /\ UNCHANGED <<kind, iter, has_null, rpc, result, checks>>

\* Presence::Some(value) => values.push(value)
PullSome ==
    /\ HasNext
    /\ is_present(NextItem)
    /\ pulled' = pulled + 1
    /\ values' = Append(values, NextItem.val)
    /\ UNCHANGED <<kind, iter, has_null, rpc, result, checks>>

\* the final fold is reached and aborts: no Null was seen, the build
\* checks overflow, and the sum or product leaves the range of i8
Aborts == ~has_null /\ checks /\ Overflows(kind, values)

\* after the loop: if has_null { Null } else { Some(aggregate) }
\* (mutant: forgets has_null)
FinishMut ==
    /\ rpc = "loop"
    /\ pulled = Len(iter)
    /\ ~Aborts
    /\ result' = Some(Aggregate(kind, values))
    /\ rpc' = "done"
    /\ UNCHANGED <<kind, iter, pulled, has_null, values, checks>>

Finish ==
    /\ rpc = "loop"
    /\ pulled = Len(iter)
    /\ ~Aborts
    /\ result' = IF has_null THEN Null ELSE Some(Aggregate(kind, values))
    /\ rpc' = "done"
    /\ UNCHANGED <<kind, iter, pulled, has_null, values, checks>>

\* after the loop, in values.into_iter().sum() or .product():
\* panic!("attempt to add with overflow") / ("attempt to multiply ...")
FinishOverflow ==
    /\ rpc = "loop"
    /\ pulled = Len(iter)
    /\ Aborts
    /\ result' = Panicked(<<"attempt", "to",
                            IF kind = "sum" THEN "add" ELSE "multiply",
                            "with", "overflow">>)
    /\ rpc' = "panicked"
    /\ UNCHANGED <<kind, iter, pulled, has_null, values, checks>>

(***************************************************************************)
(* In-place mutation of a slot (&mut self).  Each operator gives the slot  *)
(* after the call and the value returned.  A returned &mut T is modelled   *)
(* as Ref(v), the payload it points at; Panic is unreachable!().           *)
(***************************************************************************)
Ref(v) == [tag |-> "Ref", val |-> v]
Panic == [tag |-> "Panic"]

\* the final match self { Some(v) => v, _ => unreachable!() }
HandleTo(s) == IF is_present(s) THEN Ref(s.val) ELSE Panic

\* mutant: leaves Null behind, as mem::replace(self, Null) would
takeLeavesNull(self) == [slot |-> Null, ret |-> self]

\* mutant: moves the payload out but forgets the Null tag
takeMut(self) ==
    [slot |-> Absent, ret |-> IF is_null(self) THEN Absent ELSE self]

\* let mut slot = Absent; mem::swap(self, &mut slot); slot
take(self) == [slot |-> Absent, ret |-> self]

\* mutant: takes whatever the predicate does not reject
take_ifMut(self, predicate) ==
    IF is_present(self) /\ self.val \notin predicate
    THEN [slot |-> self, ret |-> Absent]
    ELSE take(self)

\* match self { Some(val) if predicate(val) => self.take(), _ => Absent }
\* a predicate is the set of payloads it accepts
take_if(self, predicate) ==
    IF is_present(self) /\ self.val \in predicate
    THEN take(self)
    ELSE [slot |-> self, ret |-> Absent]

\* the calls take_if makes to predicate: the guard of the Some(val) arm
take_if_calls(self) == IF is_present(self) THEN <<self.val>> ELSE <<>>

\* mem::replace(self, Some(value))
replace(self, value) == [slot |-> Some(value), ret |-> self]

\* mutant: keeps a payload that is already there
insertMut(self, value) ==
    LET s == IF is_present(self) THEN self ELSE Some(value)
    IN [slot |-> s, ret |-> HandleTo(s)]

\* *self = Some(value); match self { Some(v) => v, _ => unreachable!() }
insert(self, value) ==
    LET s == Some(value) IN [slot |-> s, ret |-> HandleTo(s)]

\* mutant: only an Absent slot is filled
get_or_insertMut(self, value) ==
    LET s == IF is_absent(self) THEN Some(value) ELSE self
    IN [slot |-> s, ret |-> HandleTo(s)]

\* if matches!(self, Null | Absent) { *self = Some(value) }; match self ...
get_or_insert(self, value) ==
    LET s == IF is_null(self) \/ is_absent(self) THEN Some(value) ELSE self
    IN [slot |-> s, ret |-> HandleTo(s)]

\* mutant: fills an Absent slot only
get_or_insert_withMut(self, f) ==
    LET s == IF is_absent(self) THEN Some(f) ELSE self
    IN [slot |-> s, ret |-> HandleTo(s)]

\* as get_or_insert, with the value computed by f() only when needed;
\* f is modelled by the value it returns
get_or_insert_with(self, f) ==
    LET s == IF is_null(self) \/ is_absent(self) THEN Some(f) ELSE self
    IN [slot |-> s, ret |-> HandleTo(s)]

\* the calls get_or_insert_with makes to f: f() inside the
\* if matches!(self, Null | Absent); "()" is a call without arguments
\* (mutant: f is called before the slot is looked at)
get_or_insert_with_callsMut(self) == <<"()">>

get_or_insert_with_calls(self) ==
    IF is_null(self) \/ is_absent(self) THEN <<"()">> ELSE <<>>

\* self.get_or_insert_with(Default::default)
get_or_insert_default(self) == get_or_insert_with(self, T_default)

\* *handle = value through the &mut T a call returned: the payload the
\* handle points at is overwritten in place
write(self, value) ==
    LET s == [self EXCEPT !.val = value] IN [slot |-> s, ret |-> HandleTo(s)]

\* the calls that return a &mut T into the slot
HandleOps ==
    {"insert", "get_or_insert", "get_or_insert_with", "get_or_insert_default"}

Predicates == SUBSET Payload

InitSlotVars ==
    /\ slot \in Values
    /\ ret = None
    /\ op = "new"
    /\ before = slot
    /\ prevOp = "new"
    /\ prevRet = None
    /\ given = None
    /\ fcalls = <<>>

IdleSlotVars ==
    /\ slot = Absent
    /\ ret = None
    /\ op = "idle"
    /\ before = Absent
    /\ prevOp = "idle"
    /\ prevRet = None
    /\ given = None
    /\ fcalls = <<>>

\* one call on the slot: records the operation, its argument, the calls it
\* made to the function it was given, the slot it found, and the operation
\* before it with what that one returned
CallF(name, g, r, cs) ==
    /\ op # "idle"
    /\ given' = g
    /\ fcalls' = cs
    /\ slot' = r.slot
    /\ ret' = r.ret
    /\ before' = slot
    /\ prevOp' = op
    /\ prevRet' = ret
    /\ op' = name

\* a call that is given no function
Call(name, g, r) == CallF(name, g, r, <<>>)

Take == Call("take", None, take(slot))

TakeIf ==
    \E p \in Predicates :
        CallF("take_if", p, take_if(slot, p), take_if_calls(slot))

Replace == \E v \in Payload : Call("replace", Val(v), replace(slot, v))

Insert == \E v \in Payload : Call("insert", Val(v), insert(slot, v))

GetOrInsert ==
    \E v \in Payload : Call("get_or_insert", Val(v), get_or_insert(slot, v))

GetOrInsertWith ==
    \E v \in Payload :
        CallF("get_or_insert_with", Val(v), get_or_insert_with(slot, v),
              get_or_insert_with_calls(slot))

GetOrInsertDefault ==
    CallF("get_or_insert_default", Val(T_default), get_or_insert_default(slot),
          get_or_insert_with_calls(slot))

\* the caller writes through the handle it was just given; the borrow ends
\* with the next call on the slot
Write ==
    /\ op \in HandleOps
    /\ ret.tag = "Ref"
    /\ \E v \in Payload : Call("write", Val(v), write(slot, v))

(***************************************************************************)
(* Pairwise combinators: zip, zip_with, xor.                               *)
(***************************************************************************)
\* the functions handed to zip_with
Fns == {"add", "mul"}
Apply2(f, x, y) == IF f = "add" THEN x + y ELSE x * y

\* mutant: the Null arm is tried before the Absent arm
zipMut(self, other) ==
    IF is_present(self) /\ is_present(other) THEN Some(<<self.val, other.val>>)
    ELSE IF is_null(self) \/ is_null(other) THEN Null
    ELSE Absent

\* match (self, other) {
\*   (Some(a), Some(b)) => Some((a, b)),
\*   (Absent, _) | (_, Absent) => Absent,
\*   (Null, _) | (_, Null) => Null }
zip(self, other) ==
    IF is_present(self) /\ is_present(other) THEN Some(<<self.val, other.val>>)
    ELSE IF is_absent(self) \/ is_absent(other) THEN Absent
    ELSE Null

\* the same match with Some(f(a, b))
zip_with(self, other, f) ==
    IF is_present(self) /\ is_present(other)
    THEN Some(Apply2(f, self.val, other.val))
    ELSE IF is_absent(self) \/ is_absent(other) THEN Absent
    ELSE Null

\* mutant: the Absent arm comes first
xorAbsentFirst(self, optb) ==
    IF is_absent(self) \/ is_absent(optb) THEN Absent
    ELSE IF is_present(self) /\ ~is_present(optb) THEN self
    ELSE IF ~is_present(self) /\ is_present(optb) THEN optb
    ELSE IF is_present(self) /\ is_present(optb) THEN Absent
    ELSE Null

\* mutant: with exactly one Some, always gives the left operand
xorLeft(self, optb) ==
    IF is_present(self) /\ ~is_present(optb) THEN self
    ELSE IF ~is_present(self) /\ is_present(optb) THEN self
    ELSE IF is_present(self) /\ is_present(optb) THEN Absent
    ELSE IF is_absent(self) \/ is_absent(optb) THEN Absent
    ELSE Null

\* match (self, optb) {
\*   (Some(a), Null | Absent) => Some(a),
\*   (Null | Absent, Some(b)) => Some(b),
\*   (Some(_), Some(_)) => Absent,
\*   (Absent, _) | (_, Absent) => Absent,
\*   (Null, Null) => Null }
xor(self, optb) ==
    IF is_present(self) /\ (is_null(optb) \/ is_absent(optb)) THEN self
    ELSE IF (is_null(self) \/ is_absent(self)) /\ is_present(optb) THEN optb
    ELSE IF is_present(self) /\ is_present(optb) THEN Absent
    ELSE IF is_absent(self) \/ is_absent(optb) THEN Absent
    ELSE Null

\* the calls zip_with makes to f: f(a, b) in the (Some(a), Some(b)) arm
zip_with_calls(self, other) ==
    IF is_present(self) /\ is_present(other)
    THEN <<(<<self.val, other.val>>)>>
    ELSE <<>>

InitPureVars ==
    /\ a \in Values
    /\ b \in Values
    /\ fsel = "none"
    /\ arg = None
    /\ pop = "new"
    /\ res = None
    /\ called = <<>>

IdlePureVars ==
    /\ a = Absent
    /\ b = Absent
    /\ fsel = "none"
    /\ arg = None
    /\ pop = "idle"
    /\ res = None
    /\ called = <<>>

Zip ==
    /\ pop # "idle"
    /\ pop' = "zip"
    /\ res' = zip(a, b)
    /\ fsel' = "none"
    /\ arg' = None
    /\ called' = <<>>
    /\ UNCHANGED <<a, b>>

ZipWith ==
    /\ pop # "idle"
    /\ \E f \in Fns :
        /\ fsel' = f
        /\ res' = zip_with(a, b, f)
    /\ pop' = "zip_with"
    /\ arg' = None
    /\ called' = zip_with_calls(a, b)
    /\ UNCHANGED <<a, b>>

Xor ==
    /\ pop # "idle"
    /\ pop' = "xor"
    /\ res' = xor(a, b)
    /\ fsel' = "none"
    /\ arg' = None
    /\ called' = <<>>
    /\ UNCHANGED <<a, b>>

(***************************************************************************)
(* Conversions to and from Option<Option<T>>.                              *)
(***************************************************************************)
OptNone == [opt |-> "None"]
OptSome(x) == [opt |-> "Some", val |-> x]

\* match self { Some(value) => Some(Some(value)), Null => Some(None),
\*              Absent => None }
to_nullable(self) ==
    IF is_present(self) THEN OptSome(OptSome(self.val))
    ELSE IF is_null(self) THEN OptSome(OptNone)
    ELSE OptNone

\* mutant: Some(None) is read as a missing value
from_nullableMut(opt) ==
    IF opt = OptNone THEN Absent
    ELSE IF opt.val = OptNone THEN Absent
    ELSE Some(opt.val.val)

\* match opt { Some(Some(value)) => Some(value), Some(None) => Null,
\*             None => Absent }
from_nullable(opt) ==
    IF opt # OptNone /\ opt.val # OptNone THEN Some(opt.val.val)
    ELSE IF opt # OptNone THEN Null
    ELSE Absent

\* From<Presence<T>> for Option<Option<T>>
into_nested(presence) ==
    IF is_absent(presence) THEN OptNone
    ELSE IF is_null(presence) THEN OptSome(OptNone)
    ELSE OptSome(OptSome(presence.val))

\* From<Option<Option<T>>> for Presence<T>
from_nested(opt) ==
    IF opt = OptNone THEN Absent
    ELSE IF opt.val = OptNone THEN Null
    ELSE Some(opt.val.val)

\* the operands have not been used yet
Fresh == pop = "new"

\* one call: the method, its extra argument, what it returned, and the
\* calls it made to the function it was given (the arguments of each)
ApplyF(name, g, r, cs) ==
    /\ pop # "idle"
    /\ pop' = name
    /\ arg' = g
    /\ res' = r
    /\ called' = cs
    /\ fsel' = "none"
    /\ UNCHANGED <<a, b>>

\* a call that is given no function
Apply1(name, g, r) == ApplyF(name, g, r, <<>>)

\* the calls made by a method that calls f(val) in its Some(val) arm only
\* (map, and_then, filter, inspect, is_some_and), and by one that calls
\* f() in its Null | Absent arm only (or_else, unwrap_or_else, ok_or_else)
CallsOnSome(self) == IF is_present(self) THEN <<self.val>> ELSE <<>>
CallsOnEmpty(self) == IF is_present(self) THEN <<>> ELSE <<"()">>

ToNullable == Fresh /\ Apply1("to_nullable", None, to_nullable(a))

FromNullable ==
    /\ pop = "to_nullable"
    /\ Apply1("from_nullable", None, from_nullable(res))

IntoNested == Fresh /\ Apply1("into", None, into_nested(a))

FromNested ==
    /\ pop = "into"
    /\ Apply1("from", None, from_nested(res))

(***************************************************************************)
(* Conversions to and from Option<T>.                                      *)
(***************************************************************************)
Options == {OptNone} \cup {OptSome(v) : v \in Payload}

\* match self { Some(value) => Some(value), Null | Absent => None }
to_optional(self) ==
    IF is_present(self) THEN OptSome(self.val) ELSE OptNone

\* mutant: None is read as a null value
from_optionalMut(opt) ==
    IF opt # OptNone THEN Some(opt.val) ELSE Null

\* match opt { Some(value) => Presence::Some(value), None => Absent }
from_optional(opt) ==
    IF opt # OptNone THEN Some(opt.val) ELSE Absent

ToOptional == Fresh /\ Apply1("to_optional", None, to_optional(a))

FromOptional ==
    /\ Fresh
    /\ \E opt \in Options : Apply1("from_optional", opt, from_optional(opt))

\* Presence::from_optional(x.to_optional())
FromOptionalOfResult ==
    /\ pop = "to_optional"
    /\ Apply1("to_optional;from_optional", None, from_optional(res))

\* Presence::from_optional(opt).to_optional()
ToOptionalOfResult ==
    /\ pop = "from_optional"
    /\ Apply1("from_optional;to_optional", arg, to_optional(res))

(***************************************************************************)
(* and, and_then, or, or_else.  The closure of and_then is a function from *)
(* payloads to Presence values; the closure of or_else is the value it     *)
(* returns.                                                                *)
(***************************************************************************)
\* mutant: an Absent right operand wins over a Null left operand
andMut(self, optb) ==
    IF is_present(self) THEN optb
    ELSE IF is_absent(self) \/ is_absent(optb) THEN Absent
    ELSE Null

\* match self { Some(_) => optb, Null => Null, Absent => Absent }
and(self, optb) ==
    IF is_present(self) THEN optb
    ELSE IF is_null(self) THEN Null
    ELSE Absent

\* match self { Some(val) => f(val), Null => Null, Absent => Absent }
and_then(self, f) ==
    IF is_present(self) THEN f[self.val]
    ELSE IF is_null(self) THEN Null
    ELSE Absent

\* mutant: an Absent alternative does not replace a Null
orMut(self, optb) ==
    IF is_present(self) THEN self
    ELSE IF is_null(self) /\ is_absent(optb) THEN self
    ELSE optb

\* match self { Some(_) => self, Null | Absent => optb }
or(self, optb) ==
    IF is_present(self) THEN self ELSE optb

\* match self { Some(_) => self, Null | Absent => f() }
or_else(self, f) ==
    IF is_present(self) THEN self ELSE f

And == Fresh /\ Apply1("and", None, and(a, b))

AndThen ==
    /\ Fresh
    /\ \E f \in [Payload -> Values] :
        ApplyF("and_then", f, and_then(a, f), CallsOnSome(a))

Or == Fresh /\ Apply1("or", None, or(a, b))

OrElse ==
    /\ Fresh
    /\ \E f \in Values : ApplyF("or_else", f, or_else(a, f), CallsOnEmpty(a))

(***************************************************************************)
(* map and filter.  The closure of map is a function on payloads; a        *)
(* predicate is the set of payloads it accepts.                            *)
(***************************************************************************)
\* mutant: both empty states come out as Absent
mapMut(self, f) ==
    IF is_present(self) THEN Some(f[self.val]) ELSE Absent

\* match self { Some(val) => Some(f(val)), Null => Null, Absent => Absent }
map(self, f) ==
    IF is_present(self) THEN Some(f[self.val])
    ELSE IF is_null(self) THEN Null
    ELSE Absent

\* mutant: a rejected payload leaves Null
filterMut(self, predicate) ==
    IF is_present(self) /\ self.val \in predicate THEN self
    ELSE IF is_present(self) THEN Null
    ELSE IF is_null(self) THEN Null
    ELSE Absent

\* match self { Some(ref val) if predicate(val) => self, Some(_) => Absent,
\*              Null => Null, Absent => Absent }
filter(self, predicate) ==
    IF is_present(self) /\ self.val \in predicate THEN self
    ELSE IF is_present(self) THEN Absent
    ELSE IF is_null(self) THEN Null
    ELSE Absent

\* if let Some(ref val) = self { f(val); } self
inspect(self, f) == self

\* match self { Some(val) => f(val), Null | Absent => false }
is_some_and(self, f) ==
    IF is_present(self) THEN Val(self.val \in f) ELSE Val(FALSE)

Map ==
    /\ Fresh
    /\ \E f \in [Payload -> Payload] :
        ApplyF("map", f, map(a, f), CallsOnSome(a))

Filter ==
    /\ Fresh
    /\ \E p \in Predicates : ApplyF("filter", p, filter(a, p), CallsOnSome(a))

\* the function given to inspect returns nothing: it is not recorded
Inspect == Fresh /\ ApplyF("inspect", None, inspect(a, None), CallsOnSome(a))

IsSomeAnd ==
    /\ Fresh
    /\ \E p \in Predicates :
        ApplyF("is_some_and", p, is_some_and(a, p), CallsOnSome(a))

(***************************************************************************)
(* Extraction.  A call returns Val(v) or panics; the panic message is the  *)
(* sequence of its words, without the quotes the text puts around names.   *)
(***************************************************************************)
\* the context messages handed to expect
Msgs == {"no user", "no age"}

\* mutant: one message for both empty states
unwrapMut(self) ==
    IF is_present(self) THEN Val(self.val)
    ELSE Panicked(<<"called", "Presence::unwrap()", "on", "a", "Null", "value">>)

\* match self { Some(val) => val,
\*   Null => panic!("called Presence::unwrap() on a Null value"),
\*   Absent => panic!("called Presence::unwrap() on an Absent value") }
unwrap(self) ==
    IF is_present(self) THEN Val(self.val)
    ELSE IF is_null(self)
    THEN Panicked(<<"called", "Presence::unwrap()", "on", "a", "Null", "value">>)
    ELSE Panicked(<<"called", "Presence::unwrap()", "on", "an", "Absent", "value">>)

\* match self { Some(val) => val,
\*   Null => panic!("{}: value was Null", msg),
\*   Absent => panic!("{}: value was Absent", msg) }
expect(self, msg) ==
    IF is_present(self) THEN Val(self.val)
    ELSE IF is_null(self) THEN Panicked(<<msg, ":", "value", "was", "Null">>)
    ELSE Panicked(<<msg, ":", "value", "was", "Absent">>)

\* match self { Some(val) => val, Null | Absent => default }
unwrap_or(self, default) ==
    IF is_present(self) THEN Val(self.val) ELSE Val(default)

\* match self { Some(val) => val, Null | Absent => f() }
unwrap_or_else(self, f) ==
    IF is_present(self) THEN Val(self.val) ELSE Val(f)

\* match self { Some(val) => val, Null | Absent => Default::default() }
unwrap_or_default(self) ==
    IF is_present(self) THEN Val(self.val) ELSE Val(T_default)

\* mutant: the two defaults are taken in the wrong order
unwrap_or_null_defaultMut(self, absent_default, null_default) ==
    IF is_present(self) THEN Val(self.val)
    ELSE IF is_null(self) THEN Val(absent_default)
    ELSE Val(null_default)

\* match self { Some(value) => value, Null => null_default,
\*              Absent => absent_default }
unwrap_or_null_default(self, absent_default, null_default) ==
    IF is_present(self) THEN Val(self.val)
    ELSE IF is_null(self) THEN Val(null_default)
    ELSE Val(absent_default)

\* Result<T, E>
Ok(v) == [tag |-> "Ok", val |-> v]
Err(e) == [tag |-> "Err", err |-> e]
\* the errors the function handed to ok_or_else may return
Errs == {"missing", "invalid"}

\* match self { Some(val) => Ok(val), Null | Absent => Err(err()) }
\* err is modelled by the error it returns
ok_or_else(self, err) == IF is_present(self) THEN Ok(self.val) ELSE Err(err)

Unwrap == Fresh /\ Apply1("unwrap", None, unwrap(a))

Expect == Fresh /\ \E msg \in Msgs : Apply1("expect", msg, expect(a, msg))

UnwrapOr == Fresh /\ \E d \in Payload : Apply1("unwrap_or", Val(d), unwrap_or(a, d))

UnwrapOrElse ==
    /\ Fresh
    /\ \E d \in Payload :
        ApplyF("unwrap_or_else", Val(d), unwrap_or_else(a, d),
               CallsOnEmpty(a))

OkOrElse ==
    /\ Fresh
    /\ \E e \in Errs :
        ApplyF("ok_or_else", e, ok_or_else(a, e), CallsOnEmpty(a))

UnwrapOrDefault ==
    Fresh /\ Apply1("unwrap_or_default", Val(T_default), unwrap_or_default(a))

UnwrapOrNullDefault ==
    /\ Fresh
    /\ \E ad, nd \in Payload :
        Apply1("unwrap_or_null_default", <<ad, nd>>,
               unwrap_or_null_default(a, ad, nd))

(***************************************************************************)
(* Serde bridge.  A token of the host format is the null token or the      *)
(* token of an i32 payload.  Three shapes are encoded: a standalone value, *)
(* an array of values (Vec<Presence<i32>>), and a record whose one field   *)
(* carries #[serde(default, skip_serializing_if = "Presence::is_absent")]. *)
(* An encoded record is a function from the keys it holds to tokens.       *)
(***************************************************************************)
NullTok == [kind |-> "null"]
NumTok(n) == [kind |-> "num", n |-> n]
Tokens == {NullTok} \cup {NumTok(n) : n \in Payload}

\* i32::serialize / i32::deserialize
serialize_i32(v) == NumTok(v)
deserialize_i32(tok) == tok.n

\* mutant: Absent is written as the token of the payload type's default
serializeMut(self) ==
    IF is_present(self) THEN serialize_i32(self.val)
    ELSE IF is_null(self) THEN NullTok
    ELSE serialize_i32(0)

\* match self { Some(value) => serialize_some(value),
\*              Null => serialize_none(), Absent => serialize_none() }
serialize(self) ==
    IF is_present(self) THEN serialize_i32(self.val)
    ELSE IF is_null(self) THEN NullTok
    ELSE NullTok

\* mutant: the null token is read as the default
deserializeMut(tok) ==
    IF tok = NullTok THEN Presence_default ELSE Some(deserialize_i32(tok))

\* Option::<T>::deserialize(d).map(|opt| match opt {
\*     Some(value) => Presence::Some(value), None => Presence::Null })
deserialize(tok) ==
    IF tok = NullTok THEN Null ELSE Some(deserialize_i32(tok))

NoKeys == <<>>

\* mutant: the field is written whatever its state
serialize_recordMut(d) == [field |-> serialize(d.field)]

\* the derived Serialize of the record: the field is skipped when
\* Presence::is_absent says so
serialize_record(d) ==
    IF is_absent(d.field) THEN NoKeys ELSE [field |-> serialize(d.field)]

\* the derived Deserialize of the record: a missing field takes
\* Default::default()
deserialize_record(w) ==
    IF "field" \in DOMAIN w
    THEN [field |-> deserialize(w.field)]
    ELSE [field |-> Presence_default]

\* Vec<Presence<i32>>: element by element
serialize_array(d) == [i \in 1..Len(d) |-> serialize(d[i])]
deserialize_array(w) == [i \in 1..Len(w) |-> deserialize(w[i])]

Shapes == {"value", "array", "record"}

DocsOf(sh) ==
    CASE sh = "value" -> Values
      [] sh = "array" -> SeqsUpTo(Values, MaxItems)
      [] sh = "record" -> [field : Values]

WiresOf(sh) ==
    CASE sh = "value" -> Tokens
      [] sh = "array" -> SeqsUpTo(Tokens, MaxItems)
      [] sh = "record" -> {NoKeys} \cup [field : Tokens]

Encode(sh, d) ==
    CASE sh = "value" -> serialize(d)
      [] sh = "array" -> serialize_array(d)
      [] sh = "record" -> serialize_record(d)

Decode(sh, w) ==
    CASE sh = "value" -> deserialize(w)
      [] sh = "array" -> deserialize_array(w)
      [] sh = "record" -> deserialize_record(w)

InitSerdeVars ==
    /\ shape \in Shapes
    /\ doc \in DocsOf(shape)
    /\ wire = None
    /\ back = None
    /\ stage = "value"

IdleSerdeVars ==
    /\ shape = "value"
    /\ doc = Absent
    /\ wire = None
    /\ back = None
    /\ stage = "idle"

\* serde_json::to_string(&doc)
Serialize ==
    /\ stage = "value"
    /\ wire' = Encode(shape, doc)
    /\ stage' = "encoded"
    /\ UNCHANGED <<shape, doc, back>>

\* a text that did not come from this program's encoder
Receive ==
    /\ stage = "value"
    /\ wire' \in WiresOf(shape)
    /\ stage' = "received"
    /\ UNCHANGED <<shape, doc, back>>

\* serde_json::from_str(&json)
Deserialize ==
    /\ stage \in {"encoded", "received"}
    /\ back' = Decode(shape, wire)
    /\ stage' = IF stage = "encoded" THEN "round_trip" ELSE "decoded"
    /\ UNCHANGED <<shape, doc, wire>>

(***************************************************************************)
(* Iterators.  Item<A> holds a Presence<A>; Iter and IterMut wrap an Item  *)
(* over references and pass every call to it.  A reference is modelled by  *)
(* the payload it points at.  A returned Option is OptSome(v) or OptNone.  *)
(***************************************************************************)
\* mutant: counts every defined state as one element
lenMut(self) == IF is_defined(self) THEN 1 ELSE 0

\* match self { Some(_) => 1, Null | Absent => 0 }
len(self) == IF is_present(self) THEN 1 ELSE 0

\* match *self { Some(ref val) => Some(val), Null => Null, Absent => Absent }
as_ref(self) ==
    IF is_present(self) THEN Some(self.val)
    ELSE IF is_null(self) THEN Null
    ELSE Absent

\* match *self { Some(ref mut val) => Some(val), Null => Null,
\*               Absent => Absent }
as_mut(self) ==
    IF is_present(self) THEN Some(self.val)
    ELSE IF is_null(self) THEN Null
    ELSE Absent

\* each constructor gives the container as the call leaves it and the
\* presence field of the new Item
\* Item { presence: self }, of a copy of the container (Presence is Copy)
into_iter(self) == [cont |-> self, item |-> self]

\* mutant: the payload is moved out of the container into the iterator
Presence_iterTaking(self) ==
    LET t == take(self) IN [cont |-> t.slot, item |-> t.ret]

\* Iter { inner: Item { presence: self.as_ref() } }
Presence_iter(self) == [cont |-> self, item |-> as_ref(self)]

\* IterMut { inner: Item { presence: self.as_mut() } }
Presence_iter_mut(self) == [cont |-> self, item |-> as_mut(self)]

\* ExactSizeIterator::len: self.presence.len()
Item_len(it) == len(it)

\* let len = self.len(); (len, Some(len))
size_hint(it) == LET n == Item_len(it) IN <<n, OptSome(n)>>

\* match self.presence.take() { Some(val) => Some(val),
\*                              Null | Absent => None }
Item_next(it) ==
    LET t == take(it)
    IN [item |-> t.slot,
        out |-> IF is_present(t.ret) THEN OptSome(t.ret.val) ELSE OptNone]

\* mutant: looks at the element without taking it
next_backMut(it) ==
    [item |-> it,
     out |-> IF is_present(it) THEN OptSome(it.val) ELSE OptNone]

\* DoubleEndedIterator::next_back: the same match
next_back(it) ==
    LET t == take(it)
    IN [item |-> t.slot,
        out |-> IF is_present(t.ret) THEN OptSome(t.ret.val) ELSE OptNone]

Flavours == {"into_iter", "iter", "iter_mut"}

InitIterVars ==
    /\ cont \in Values
    /\ origin = cont
    /\ flavour = "new"
    /\ item = Absent
    /\ calls = <<>>
    /\ prior = <<>>
    /\ priorFlavour = "new"
    /\ wrote = None

IdleIterVars ==
    /\ cont = Absent
    /\ origin = Absent
    /\ flavour = "idle"
    /\ item = Absent
    /\ calls = <<>>
    /\ prior = <<>>
    /\ priorFlavour = "idle"
    /\ wrote = None

\* a new iterator is derived from the container; the one before it, and
\* any handle it yielded, is dropped.  origin is the container the call
\* found, prior the calls made on the iterator before.
Derive(fl, r) ==
    /\ flavour # "idle"
    /\ flavour' = fl
    /\ cont' = r.cont
    /\ item' = r.item
    /\ origin' = cont
    /\ calls' = <<>>
    /\ prior' = calls
    /\ priorFlavour' = flavour
    /\ wrote' = None

IntoIter == Derive("into_iter", into_iter(cont))

Iter == Derive("iter", Presence_iter(cont))

IterMut == Derive("iter_mut", Presence_iter_mut(cont))

\* one next or next_back on the iterator; calls records what each returned
Advance(name, r) ==
    /\ flavour \in Flavours
    /\ Len(calls) < MaxCalls
    /\ item' = r.item
    /\ calls' = Append(calls, [fn |-> name, out |-> r.out])
    /\ UNCHANGED <<cont, origin, flavour, prior, priorFlavour, wrote>>

IterNext == Advance("next", Item_next(item))

IterNextBack == Advance("next_back", next_back(item))

\* *v = value through the &mut A that an iter_mut iterator yielded
WriteYielded ==
    /\ flavour = "iter_mut"
    /\ \E i \in DOMAIN calls : calls[i].out # OptNone
    /\ \E v \in Payload :
        /\ cont' = write(cont, v).slot
        /\ wrote' = Val(v)
    /\ UNCHANGED <<origin, flavour, item, calls, prior, priorFlavour>>

(***************************************************************************)
(* Specifications                                                          *)
(***************************************************************************)
InitReduce ==
    InitReduceVars /\ IdleSlotVars /\ IdlePureVars /\ IdleSerdeVars /\ IdleIterVars
NextReduce ==
    \/ PullAbsent /\ UNCHANGED <<slotVars, pureVars, serdeVars, iterVars>>
    \/ PullNull /\ UNCHANGED <<slotVars, pureVars, serdeVars, iterVars>>
    \/ PullSome /\ UNCHANGED <<slotVars, pureVars, serdeVars, iterVars>>
    \/ Finish /\ UNCHANGED <<slotVars, pureVars, serdeVars, iterVars>>
    \/ FinishOverflow /\ UNCHANGED <<slotVars, pureVars, serdeVars, iterVars>>
SpecReduce == InitReduce /\ [][NextReduce]_vars

InitSlot ==
    IdleReduceVars /\ InitSlotVars /\ IdlePureVars /\ IdleSerdeVars /\ IdleIterVars
NextSlot ==
    \/ Take /\ UNCHANGED <<reduceVars, pureVars, serdeVars, iterVars>>
    \/ TakeIf /\ UNCHANGED <<reduceVars, pureVars, serdeVars, iterVars>>
    \/ Replace /\ UNCHANGED <<reduceVars, pureVars, serdeVars, iterVars>>
    \/ Insert /\ UNCHANGED <<reduceVars, pureVars, serdeVars, iterVars>>
    \/ GetOrInsert /\ UNCHANGED <<reduceVars, pureVars, serdeVars, iterVars>>
    \/ GetOrInsertWith /\ UNCHANGED <<reduceVars, pureVars, serdeVars, iterVars>>
    \/ GetOrInsertDefault /\ UNCHANGED <<reduceVars, pureVars, serdeVars, iterVars>>
    \/ Write /\ UNCHANGED <<reduceVars, pureVars, serdeVars, iterVars>>
SpecSlot == InitSlot /\ [][NextSlot]_vars

InitPure ==
    IdleReduceVars /\ IdleSlotVars /\ InitPureVars /\ IdleSerdeVars /\ IdleIterVars
NextPure ==
    \/ Zip /\ UNCHANGED <<reduceVars, slotVars, serdeVars, iterVars>>
    \/ ZipWith /\ UNCHANGED <<reduceVars, slotVars, serdeVars, iterVars>>
    \/ Xor /\ UNCHANGED <<reduceVars, slotVars, serdeVars, iterVars>>
    \/ ToNullable /\ UNCHANGED <<reduceVars, slotVars, serdeVars, iterVars>>
    \/ FromNullable /\ UNCHANGED <<reduceVars, slotVars, serdeVars, iterVars>>
    \/ IntoNested /\ UNCHANGED <<reduceVars, slotVars, serdeVars, iterVars>>
    \/ FromNested /\ UNCHANGED <<reduceVars, slotVars, serdeVars, iterVars>>
    \/ ToOptional /\ UNCHANGED <<reduceVars, slotVars, serdeVars, iterVars>>
    \/ FromOptional /\ UNCHANGED <<reduceVars, slotVars, serdeVars, iterVars>>
    \/ FromOptionalOfResult /\ UNCHANGED <<reduceVars, slotVars, serdeVars, iterVars>>
    \/ ToOptionalOfResult /\ UNCHANGED <<reduceVars, slotVars, serdeVars, iterVars>>
    \/ And /\ UNCHANGED <<reduceVars, slotVars, serdeVars, iterVars>>
    \/ AndThen /\ UNCHANGED <<reduceVars, slotVars, serdeVars, iterVars>>
    \/ Or /\ UNCHANGED <<reduceVars, slotVars, serdeVars, iterVars>>
    \/ OrElse /\ UNCHANGED <<reduceVars, slotVars, serdeVars, iterVars>>
    \/ Map /\ UNCHANGED <<reduceVars, slotVars, serdeVars, iterVars>>
    \/ Filter /\ UNCHANGED <<reduceVars, slotVars, serdeVars, iterVars>>
    \/ Inspect /\ UNCHANGED <<reduceVars, slotVars, serdeVars, iterVars>>
    \/ IsSomeAnd /\ UNCHANGED <<reduceVars, slotVars, serdeVars, iterVars>>
    \/ OkOrElse /\ UNCHANGED <<reduceVars, slotVars, serdeVars, iterVars>>
    \/ Unwrap /\ UNCHANGED <<reduceVars, slotVars, serdeVars, iterVars>>
    \/ Expect /\ UNCHANGED <<reduceVars, slotVars, serdeVars, iterVars>>
    \/ UnwrapOr /\ UNCHANGED <<reduceVars, slotVars, serdeVars, iterVars>>
    \/ UnwrapOrElse /\ UNCHANGED <<reduceVars, slotVars, serdeVars, iterVars>>
    \/ UnwrapOrDefault /\ UNCHANGED <<reduceVars, slotVars, serdeVars, iterVars>>
    \/ UnwrapOrNullDefault /\ UNCHANGED <<reduceVars, slotVars, serdeVars, iterVars>>
SpecPure == InitPure /\ [][NextPure]_vars

InitSerde ==
    IdleReduceVars /\ IdleSlotVars /\ IdlePureVars /\ InitSerdeVars /\ IdleIterVars
NextSerde ==
    \/ Serialize /\ UNCHANGED <<reduceVars, slotVars, pureVars, iterVars>>
    \/ Receive /\ UNCHANGED <<reduceVars, slotVars, pureVars, iterVars>>
    \/ Deserialize /\ UNCHANGED <<reduceVars, slotVars, pureVars, iterVars>>
SpecSerde == InitSerde /\ [][NextSerde]_vars

InitIter ==
    IdleReduceVars /\ IdleSlotVars /\ IdlePureVars /\ IdleSerdeVars /\ InitIterVars
NextIter ==
    \/ IntoIter /\ UNCHANGED <<reduceVars, slotVars, pureVars, serdeVars>>
    \/ Iter /\ UNCHANGED <<reduceVars, slotVars, pureVars, serdeVars>>
    \/ IterMut /\ UNCHANGED <<reduceVars, slotVars, pureVars, serdeVars>>
    \/ IterNext /\ UNCHANGED <<reduceVars, slotVars, pureVars, serdeVars>>
    \/ IterNextBack /\ UNCHANGED <<reduceVars, slotVars, pureVars, serdeVars>>
    \/ WriteYielded /\ UNCHANGED <<reduceVars, slotVars, pureVars, serdeVars>>
SpecIter == InitIter /\ [][NextIter]_vars

Init == InitReduce \/ InitSlot \/ InitPure \/ InitSerde \/ InitIter
Next == NextReduce \/ NextSlot \/ NextPure \/ NextSerde \/ NextIter
Spec == Init /\ [][Next]_vars

(***************************************************************************)
(* Properties                                                              *)
(***************************************************************************)
HasTag(s, t) == \E i \in 1..Len(s) : s[i].tag = t
Payloads(s) == [i \in 1..Len(s) |-> s[i].val]
Pulled == SubSeq(iter, 1, pulled)

StopIndex(s) ==
    IF HasTag(s, "Absent")
    THEN CHOOSE i \in 1..Len(s) :
            is_absent(s[i]) /\ \A j \in 1..(i - 1) : ~is_absent(s[j])
    ELSE Len(s)

SomePayloads(s) ==
    LET somes == SelectSeq(s, is_present) IN Payloads(somes)

C4_Take ==
    /\ op = "take" => ret = before /\ slot = Absent
    /\ (op = "take" /\ prevOp = "take") => ret = Absent /\ slot = Absent

\* two takes in a row, the first of which returned Null
C4_Witness ==
    /\ op = "take"
    /\ prevOp = "take"
    /\ prevRet = Null
    /\ ret = Absent

BothSome == is_present(a) /\ is_present(b)
EitherAbsent == is_absent(a) \/ is_absent(b)
EitherNull == is_null(a) \/ is_null(b)

\* C5: zip and zip_with give Some of the combined payloads exactly when both
\* operands are Some, Absent when an operand is Absent, and Null otherwise.
C5_ZipPrecedence ==
    pop \in {"zip", "zip_with"} =>
        /\ is_present(res) <=> BothSome
        /\ (BothSome /\ pop = "zip") => res.val = <<a.val, b.val>>
        /\ (BothSome /\ pop = "zip_with") => res.val = Apply2(fsel, a.val, b.val)
        /\ EitherAbsent => res = Absent
        /\ (~EitherAbsent /\ EitherNull) => res = Null

\* Null zipped with Absent is Absent
C5_Witness ==
    /\ pop = "zip"
    /\ is_null(a)
    /\ is_absent(b)
    /\ res = Absent

\* C6 as claimed: xor is Absent whenever an operand is Absent.
C6_XorAbsentDominates ==
    (pop = "xor" /\ EitherAbsent) => res = Absent

\* C6 (amended): when an operand is Absent, xor is Absent unless the other
\* operand is Some(v), and then it is that Some(v); in either position.
C6_XorAbsentUnlessSome ==
    (pop = "xor" /\ EitherAbsent) =>
        res = IF is_present(a) THEN a ELSE IF is_present(b) THEN b ELSE Absent

\* Some(v) xor Absent is Some(v)
C6_Witness ==
    /\ pop = "xor"
    /\ is_present(a)
    /\ is_absent(b)
    /\ res = a

\* C7: with exactly one Some operand xor is that operand; with two it is
\* Absent; Null xor Null is Null.
C7_XorTruthTable ==
    pop = "xor" =>
        /\ (is_present(a) /\ ~is_present(b)) => res = a
        /\ (~is_present(a) /\ is_present(b)) => res = b
        /\ BothSome => res = Absent
        /\ (is_null(a) /\ is_null(b)) => res = Null

\* the Some operand on the right is the result
C7_Witness ==
    /\ pop = "xor"
    /\ is_null(a)
    /\ is_present(b)
    /\ res = b

\* what the claims say a record with the omit rule is written as
FieldWritten(p) ==
    CASE is_present(p) -> [field |-> NumTok(p.val)]
      [] is_null(p) -> [field |-> NullTok]
      [] is_absent(p) -> NoKeys

\* C8: a field with the omit-if-absent and default-if-missing rules is
\* written as its value, as null, or not at all, and is read back in the
\* state it had.
C8_RecordRoundTrip ==
    shape = "record" =>
        /\ stage \in {"encoded", "round_trip"} => wire = FieldWritten(doc.field)
        /\ stage = "round_trip" => back = doc

\* an Absent field was left out and read back as Absent
C8_Witness ==
    /\ shape = "record"
    /\ stage = "round_trip"
    /\ is_absent(doc.field)
    /\ wire = NoKeys
    /\ is_absent(back.field)

\* what the claims say a value without an omit rule is written as, and
\* what it is read back as
TokenWritten(p) == IF is_present(p) THEN NumTok(p.val) ELSE NullTok
ReadBack(p) == IF is_absent(p) THEN Null ELSE p

\* C9: standalone or as an array element, Some(v) is written as the value
\* token and Null and Absent as the null token; read back, Some and Null are
\* unchanged and Absent has become Null.
C9_NoOmitRoundTrip ==
    /\ (shape = "value" /\ stage \in {"encoded", "round_trip"}) =>
        wire = TokenWritten(doc)
    /\ (shape = "value" /\ stage = "round_trip") => back = ReadBack(doc)
    /\ (shape = "array" /\ stage \in {"encoded", "round_trip"}) =>
        /\ Len(wire) = Len(doc)
        /\ \A i \in 1..Len(doc) : wire[i] = TokenWritten(doc[i])
    /\ (shape = "array" /\ stage = "round_trip") =>
        /\ Len(back) = Len(doc)
        /\ \A i \in 1..Len(doc) : back[i] = ReadBack(doc[i])

\* an array holding a Null and an Absent came back with two Nulls
C9_Witness ==
    /\ shape = "array"
    /\ stage = "round_trip"
    /\ \E i, j \in 1..Len(doc) :
        /\ is_null(doc[i])
        /\ is_absent(doc[j])
        /\ wire[i] = wire[j]
        /\ back[i] = Null
        /\ back[j] = Null

TokenRead(tok, p) ==
    /\ ~is_absent(p)
    /\ tok = NullTok => p = Null
    /\ tok # NullTok => p = Some(tok.n)

\* C10: whatever token is decoded, the result is Null for the null token and
\* Some(v) for any other, never Absent.
C10_DecodeNeverAbsent ==
    stage \in {"decoded", "round_trip"} =>
        /\ shape = "value" => TokenRead(wire, back)
        /\ shape = "array" => \A i \in 1..Len(wire) : TokenRead(wire[i], back[i])
        /\ (shape = "record" /\ "field" \in DOMAIN wire) =>
            TokenRead(wire.field, back.field)

\* a received null token was decoded as Null
C10_Witness ==
    /\ stage = "decoded"
    /\ shape = "value"
    /\ wire = NullTok
    /\ back = Null

Count(bs) == Cardinality({i \in DOMAIN bs : bs[i]})

\* C11: whatever in-place calls were made on the slot, exactly one of
\* is_absent, is_null, is_present holds of it, is_defined is the negation
\* of is_absent, and is_nullish the negation of is_present.
C11_PredicatesPartition ==
    op # "idle" =>
        /\ Count(<<is_absent(slot), is_null(slot), is_present(slot)>>) = 1
        /\ is_defined(slot) <=> ~is_absent(slot)
        /\ is_nullish(slot) <=> ~is_present(slot)

\* a Null slot that a take_if left alone: defined and nullish
C11_Witness ==
    /\ op = "take_if"
    /\ is_null(slot)
    /\ ~is_absent(slot)
    /\ ~is_present(slot)
    /\ is_defined(slot)
    /\ is_nullish(slot)

\* the nested Option the claims give for each state
NestedOf(p) ==
    CASE is_absent(p) -> OptNone
      [] is_null(p) -> OptSome(OptNone)
      [] is_present(p) -> OptSome(OptSome(p.val))

\* C12: to_nullable and Into give None for Absent, Some(None) for Null and
\* Some(Some(v)) for Some(v); from_nullable and From give back the value
\* that was converted, in all three states.
C12_NestedRoundTrip ==
    /\ pop \in {"to_nullable", "into"} => res = NestedOf(a)
    /\ pop \in {"from_nullable", "from"} => res = a

\* a Null went through Some(None) and came back Null
C12_Witness ==
    /\ pop = "from_nullable"
    /\ is_null(a)
    /\ res = Null

Empty(p) == is_null(p) \/ is_absent(p)

\* C13: get_or_insert, get_or_insert_with and get_or_insert_default fill a
\* Null or Absent slot with Some of the given, computed or default value and
\* leave a Some(v) slot as it is; afterwards the slot is Some and the handle
\* returned points at its payload.
C13_GetOrInsert ==
    op \in {"get_or_insert", "get_or_insert_with", "get_or_insert_default"} =>
        /\ Empty(before) => slot = Some(given.val)
        /\ is_present(before) => slot = before
        /\ op = "get_or_insert_default" => given = Val(T_default)
        /\ is_present(slot)
        /\ ret = Ref(slot.val)

\* a Null slot filled by get_or_insert_with
C13_Witness ==
    /\ op = "get_or_insert_with"
    /\ is_null(before)
    /\ is_present(slot)
    /\ slot.val = given.val
    /\ ret = Ref(given.val)

\* C14: replace and insert leave Some(value) whatever the slot held; replace
\* returns what it held; a write through the handle insert returned changes
\* the payload and leaves the slot Some.
C14_ReplaceInsert ==
    /\ op \in {"replace", "insert"} => slot = Some(given.val)
    /\ op = "replace" => ret = before
    /\ op = "insert" => ret = Ref(given.val)
    /\ (op = "write" /\ prevOp = "insert") =>
        /\ is_present(slot)
        /\ slot.val = given.val

\* a payload inserted and then overwritten through the handle
C14_Witness ==
    /\ op = "write"
    /\ prevOp = "insert"
    /\ is_present(before)
    /\ slot = Some(given.val)
    /\ slot # before

\* C15: and gives the right operand, and and_then gives f(v), when self is
\* Some(v); a Null self gives Null and an Absent self gives Absent whatever
\* the right operand is.
C15_AndLeftPropagates ==
    /\ pop = "and" =>
        /\ is_present(a) => res = b
        /\ is_null(a) => res = Null
        /\ is_absent(a) => res = Absent
    /\ pop = "and_then" =>
        /\ is_present(a) => res = arg[a.val]
        /\ is_null(a) => res = Null
        /\ is_absent(a) => res = Absent

\* Null.and(Absent) is Null
C15_Witness ==
    /\ pop = "and"
    /\ is_null(a)
    /\ is_absent(b)
    /\ res = Null

\* C16: or and or_else give self when it is Some(v), and otherwise the
\* alternative, respectively f(), in whatever state that is.
C16_OrTakesAlternative ==
    /\ pop = "or" =>
        /\ is_present(a) => res = a
        /\ Empty(a) => res = b
    /\ pop = "or_else" =>
        /\ is_present(a) => res = a
        /\ Empty(a) => res = arg

\* Null.or(Absent) is Absent
C16_Witness ==
    /\ pop = "or"
    /\ is_null(a)
    /\ is_absent(b)
    /\ res = Absent

\* C17: filter keeps Some(v) when the predicate accepts v and gives Absent
\* when it does not; Null stays Null and Absent stays Absent; the result is
\* Null only for a Null input.
C17_FilterNeverMakesNull ==
    pop = "filter" =>
        /\ (is_present(a) /\ a.val \in arg) => res = a
        /\ (is_present(a) /\ a.val \notin arg) => res = Absent
        /\ is_null(a) => res = Null
        /\ is_absent(a) => res = Absent
        /\ is_null(res) => is_null(a)

\* a payload the predicate rejects became Absent
C17_Witness ==
    /\ pop = "filter"
    /\ is_present(a)
    /\ a.val \notin arg
    /\ res = Absent

\* C18: map keeps the state: Null stays Null, Absent stays Absent, and
\* Some(v) becomes Some(f(v)), for every f.
C18_MapKeepsState ==
    pop = "map" =>
        /\ res.tag = a.tag
        /\ is_present(a) => res = Some(arg[a.val])
        /\ is_null(a) => res = Null
        /\ is_absent(a) => res = Absent

\* Null mapped is still Null
C18_Witness ==
    /\ pop = "map"
    /\ is_null(a)
    /\ res = Null

Words(text) == {text[i] : i \in DOMAIN text}
\* the message names the state
Names(text, state) == state \in Words(text)
OtherEmpty(p) == IF is_null(p) THEN Absent ELSE Null

\* C19: unwrap and expect return the payload of Some(v) and panic for Null
\* and for Absent, with a message that names that state and differs from the
\* message for the other empty state; expect's message holds the caller's.
C19_PanicNamesState ==
    pop \in {"unwrap", "expect"} =>
        /\ is_present(a) => res = Val(a.val)
        /\ Empty(a) =>
            /\ res.tag = "Panicked"
            /\ Names(res.text, a.tag)
            /\ ~Names(res.text, OtherEmpty(a).tag)
        /\ (pop = "unwrap" /\ Empty(a)) => res.text # unwrap(OtherEmpty(a)).text
        /\ (pop = "expect" /\ Empty(a)) =>
            /\ arg \in Words(res.text)
            /\ res.text # expect(OtherEmpty(a), arg).text

\* unwrap on Absent panicked and said so
C19_Witness ==
    /\ pop = "unwrap"
    /\ is_absent(a)
    /\ res.tag = "Panicked"
    /\ Names(res.text, "Absent")

\* C20: unwrap_or, unwrap_or_else and unwrap_or_default return the payload
\* of Some(v) and one fallback for both Null and Absent;
\* unwrap_or_null_default returns absent_default for Absent and null_default
\* for Null.
C20_DefaultedExtraction ==
    /\ pop \in {"unwrap_or", "unwrap_or_else", "unwrap_or_default"} =>
        /\ is_present(a) => res = Val(a.val)
        /\ Empty(a) => res = arg
        /\ pop = "unwrap_or_default" => arg = Val(T_default)
    /\ pop = "unwrap_or_null_default" =>
        /\ is_present(a) => res = Val(a.val)
        /\ is_absent(a) => res = Val(arg[1])
        /\ is_null(a) => res = Val(arg[2])

\* a Null took null_default, which is not absent_default
C20_Witness ==
    /\ pop = "unwrap_or_null_default"
    /\ is_null(a)
    /\ arg[1] # arg[2]
    /\ res = Val(arg[2])

\* the number of elements the claims give a container
ElementsOf(p) == IF p.tag = "Some" THEN 1 ELSE 0
\* the number of calls that returned an element
Yields(cs) == Cardinality({i \in DOMAIN cs : cs[i].out # OptNone})

\* C21: an iterator just derived with into_iter, iter or iter_mut has len 1
\* and size_hint (1, Some(1)) for Some, and len 0 and size_hint (0, Some(0))
\* for Null and Absent; its first next or next_back returns the payload of
\* Some and None otherwise, and every call after the first returns None.
C21_FreshIterator ==
    flavour \in Flavours =>
        /\ calls = <<>> =>
            /\ Item_len(item) = ElementsOf(origin)
            /\ size_hint(item) = <<ElementsOf(origin), OptSome(ElementsOf(origin))>>
        /\ calls # <<>> =>
            /\ calls[1].out =
                IF is_present(origin) THEN OptSome(origin.val) ELSE OptNone
            /\ \A i \in 2..Len(calls) : calls[i].out = OptNone

\* an iterator over Some(v) walked backward: v, then None
C21_Witness ==
    /\ flavour = "iter"
    /\ is_present(origin)
    /\ Len(calls) = 2
    /\ \A i \in 1..2 : calls[i].fn = "next_back"
    /\ calls[1].out = OptSome(origin.val)
    /\ calls[2].out = OptNone

\* C22: while an iterator derived with iter is walked the container stays
\* as it was, and its first element is the first element of the iter
\* iterator before it; a write through a handle that iter_mut yielded puts
\* the written payload in the container and keeps its tag.
C22_IterLeavesContainer ==
    /\ flavour = "iter" => cont = origin
    /\ (flavour = "iter" /\ priorFlavour = "iter" /\ calls # <<>> /\ prior # <<>>)
        => calls[1].out = prior[1].out
    /\ flavour = "iter_mut" => cont.tag = origin.tag
    /\ (flavour = "iter_mut" /\ wrote # None) => cont = Some(wrote.val)
    /\ (flavour = "iter_mut" /\ wrote = None) => cont = origin

\* an iter iterator walked to its end, and the one derived after it yields
\* the same element
C22_Witness ==
    /\ flavour = "iter"
    /\ priorFlavour = "iter"
    /\ Len(prior) >= 2
    /\ prior[Len(prior)].out = OptNone
    /\ calls # <<>>
    /\ is_present(cont)
    /\ calls[1].out = OptSome(cont.val)
    /\ calls[1].out = prior[1].out

\* C29: on one iterator, however next and next_back are mixed, at most one
\* call returns an element, len is 1 exactly while the payload of Some is
\* still to come and 0 otherwise, and no call returns an element after a
\* call that returned None.
C29_YieldsOnceThenNone ==
    flavour \in Flavours =>
        /\ Yields(calls) <= 1
        /\ Item_len(item) =
            IF is_present(origin) /\ Yields(calls) = 0 THEN 1 ELSE 0
        /\ \A i, j \in DOMAIN calls :
            (i < j /\ calls[i].out = OptNone) => calls[j].out = OptNone

\* next gave the payload, then next_back and next both gave None
C29_Witness ==
    /\ flavour = "into_iter"
    /\ Len(calls) = 3
    /\ calls[1].fn = "next"
    /\ calls[1].out # OptNone
    /\ calls[2].fn = "next_back"
    /\ calls[2].out = OptNone
    /\ calls[3].fn = "next"
    /\ calls[3].out = OptNone
    /\ Item_len(item) = 0

\* C23: collecting the two-element sequence [x, y] gives a result in the
\* same state as x.zip(y), and when both are Some the collection holds the
\* two payloads of the zipped pair, in the same order.
C23_CollectAgreesWithZip ==
    (kind = "collect" /\ rpc = "done" /\ Len(iter) = 2) =>
        LET z == zip(iter[1], iter[2])
        IN /\ result.tag = z.tag
           /\ is_present(z) =>
               /\ Len(result.val) = 2
               /\ result.val[1] = z.val[1]
               /\ result.val[2] = z.val[2]

\* [Some(v), Some(w)] with v # w collected to Some([v, w])
C23_Witness ==
    /\ kind = "collect"
    /\ rpc = "done"
    /\ Len(iter) = 2
    /\ is_present(iter[1])
    /\ is_present(iter[2])
    /\ iter[1].val # iter[2].val
    /\ result = Some(<<iter[1].val, iter[2].val>>)

\* C24: a reduction of the empty sequence returns Some of the identity:
\* the empty collection for collect, 0 for sum, 1 for product; collect of
\* an all-Some sequence returns the payloads in the order of the sequence.
C24_EmptyIdentity ==
    rpc = "done" =>
        /\ (iter = <<>> /\ kind = "collect") => result = Some(<<>>)
        /\ (iter = <<>> /\ kind = "sum") => result = Some(0)
        /\ (iter = <<>> /\ kind = "product") => result = Some(1)
        /\ (kind = "collect" /\ \A i \in DOMAIN iter : is_present(iter[i])) =>
            /\ is_present(result)
            /\ Len(result.val) = Len(iter)
            /\ \A i \in DOMAIN iter : result.val[i] = iter[i].val

\* the product of no elements is Some(1)
C24_Witness ==
    /\ rpc = "done"
    /\ kind = "product"
    /\ iter = <<>>
    /\ result = Some(1)

\* C25: to_optional gives Some(v) for Some(v) and None for Null and for
\* Absent; from_optional gives Some(v) for Some(v) and Absent for None,
\* never Null; to_optional after from_optional gives back the Option;
\* from_optional after to_optional gives back Some(v) and Absent, and gives
\* Absent for Null.
C25_OptionalConversions ==
    /\ pop = "to_optional" =>
        res = IF a.tag = "Some" THEN OptSome(a.val) ELSE OptNone
    /\ pop = "from_optional" =>
        /\ arg = OptNone => res = Absent
        /\ arg # OptNone => res = Some(arg.val)
        /\ ~is_null(res)
    /\ pop = "from_optional;to_optional" => res = arg
    /\ pop = "to_optional;from_optional" =>
        res = IF is_null(a) THEN Absent ELSE a

\* a Null went through None and came back Absent
C25_Witness ==
    /\ pop = "to_optional;from_optional"
    /\ is_null(a)
    /\ res = Absent

\* C27: take_if on Some(v) with a predicate that accepts v returns Some(v)
\* and leaves Absent; on Some(v) that the predicate rejects, on Null and on
\* Absent it returns Absent and leaves the slot as it was.
C27_TakeIf ==
    op = "take_if" =>
        /\ (before.tag = "Some" /\ before.val \in given) =>
            /\ ret = before
            /\ slot = Absent
        /\ ~(before.tag = "Some" /\ before.val \in given) =>
            /\ ret = Absent
            /\ slot = before

\* a Null slot that take_if left Null, whatever the predicate accepts
C27_Witness ==
    /\ op = "take_if"
    /\ is_null(before)
    /\ given = Payload
    /\ ret = Absent
    /\ slot = Null

\* C28: no in-place call makes the slot Null: the slot is Null after a
\* step only if it was Null before it.
C28_NeverBecomesNull == [][is_null(slot') => is_null(slot)]_vars

\* a Null slot was emptied by take and later filled: it has left Null
C28_Witness ==
    /\ prevOp = "take"
    /\ prevRet = Null
    /\ op = "get_or_insert"
    /\ is_present(slot)

\* what the claims say of a function meant for Some(v): called once, with
\* v; and of a fallback meant for Null and Absent: called once, there
OnceForSome(self, cs) == cs = IF self.tag = "Some" THEN <<self.val>> ELSE <<>>
OnceForEmpty(self, cs) == Len(cs) = IF self.tag = "Some" THEN 0 ELSE 1

\* C30: the function given to map, and_then, filter, inspect or is_some_and
\* is called exactly once when self is Some(v), with v, and never when self
\* is Null or Absent; the fallback given to unwrap_or_else, or_else,
\* ok_or_else or get_or_insert_with is called exactly once when self is Null
\* or Absent and never when self is Some.
C30_FunctionsCalledOnce ==
    /\ pop \in {"map", "and_then", "filter", "inspect", "is_some_and"} =>
        OnceForSome(a, called)
    /\ pop \in {"unwrap_or_else", "or_else", "ok_or_else"} =>
        OnceForEmpty(a, called)
    /\ op = "get_or_insert_with" => OnceForEmpty(before, fcalls)

\* get_or_insert_with found Some(v) and did not call its function
C30_Witness ==
    /\ op = "get_or_insert_with"
    /\ is_present(before)
    /\ fcalls = <<>>
    /\ slot = before

\* a valid tri-state value
IsPresence(p) ==
    /\ "tag" \in DOMAIN p
    /\ p.tag \in {"Absent", "Null", "Some"}
    /\ p.tag = "Some" <=> "val" \in DOMAIN p
\* a call that returned
Returned(r) == "text" \notin DOMAIN r
\* the pure methods that return a Presence
PresenceOps ==
    {"zip", "zip_with", "xor", "and", "and_then", "or", "or_else", "map",
     "filter", "inspect", "from_nullable", "from", "from_optional",
     "to_optional;from_optional"}

\* the part of C26 that does not depend on the payload type: the in-place
\* calls never reach unreachable!() and leave a valid Presence, every pure
\* method other than unwrap and expect returns, those that return a
\* Presence return a valid one, collect never aborts, every reduction that
\* returns gives a valid Presence, and a decoded value is a valid Presence.
TotalElsewhere ==
    /\ op # "idle" => ret # Panic /\ IsPresence(slot)
    /\ pop \notin {"new", "idle", "unwrap", "expect"} => Returned(res)
    /\ pop \in PresenceOps => IsPresence(res)
    /\ kind = "collect" => rpc # "panicked"
    /\ rpc = "done" => IsPresence(result)
    /\ (shape = "value" /\ stage \in {"decoded", "round_trip"}) => IsPresence(back)
    /\ (shape = "value" /\ stage \in {"encoded", "round_trip"}) => wire \in Tokens

====
